---- MODULE Spec2Model ----
(***************************************************************************)
(* Bank/book reconciliation: the bucket-indexed greedy matcher             *)
(* SmartReconciliation.fuzzy_match_transactions                            *)
(* (src/src/expense_categorization.py) and the pairwise matcher            *)
(* EnhancedReconciliation.reconcile_transactions                           *)
(* (src/src/analysis/reconciliation.py).                                   *)
(*                                                                         *)
(* Encodings.                                                              *)
(*  - An amount is an integer number of cents; it stands for the Python    *)
(*    float (or numeric string) with that value.                           *)
(*  - A date is a timestamp counted in half days (HalfDaysPerDay per       *)
(*    calendar day); NoDate stands for a record without a "date" key,      *)
(*    BadDate for a string that is no ISO date, BadAmount for an amount    *)
(*    that is no number.                                                   *)
(*  - A description is a sequence of one-character strings.                *)
(*  - A Python float score s is the integer 1000*s, off by one unit where  *)
(*    the double differs from the decimal (899 is 0.8999999999999999,      *)
(*    900 is 0.9, 601 is 0.6000000000000001); the encoding preserves       *)
(*    order and equality of every score the scorer can produce.            *)
(*  - A decimal.Decimal is [coef, exp], value coef * 10^exp.               *)
(*  - Records are referred to by their position in the input list.         *)
(***************************************************************************)
EXTENDS Integers, Sequences, FiniteSets, TLC

VARIABLES self, call, pc, bank_transactions, book_transactions,
          book_amount_index, matched_book_indices, idx, matches,
          unmatched_bank, unmatched_book, considered, result,
          error, audit_log, runs, prev_result,
          suspended

vars == <<self, call, pc, bank_transactions, book_transactions,
          book_amount_index, matched_book_indices, idx, matches,
          unmatched_bank, unmatched_book, considered, result,
          error, audit_log, runs, prev_result,
          suspended>>

(***************************************************************************)
(* Bounds of the model.                                                    *)
(***************************************************************************)
MaxBank == 2

MaxBook == 2

MaxRuns == 2

\* the longest pool handed to suggest_matches
MaxPool == 6

(***************************************************************************)
(* Input domain.                                                           *)
(***************************************************************************)
HalfDaysPerDay == 2

NoDate == -1000

\* an "amount" that float() and Decimal() cannot parse, such as "abc"
BadAmount == -99999999

\* a "date" that datetime.fromisoformat cannot parse, such as "garbage"
BadDate == -2000

None == 0

Txn(a, d, s) == [amount |-> a, date |-> d, description |-> s]

DescAcCo == <<"A", "C", " ", "c", "o">>

DescAcCorp == <<"a", "c", " ", "c", "o", "r", "p">>

DescZz == <<"z", "z">>

DescAcmeCorp == <<"A", "C", "M", "E", " ", "C", "o", "r", "p">>

DescAcmeCorporation ==
    <<"A", "C", "M", "E", " ", "C", "o", "r", "p", "o", "r", "a", "t", "i", "o", "n">>

DescEmpty == <<>>

Descriptions ==
    {DescAcCo, DescAcCorp, DescZz, DescEmpty, DescAcmeCorp, DescAcmeCorporation}

\* the records the callers of fuzzy_match_transactions draw the lists from
Records ==
    { Txn(10000, 0, DescAcCo),
      Txn(10001, 0, DescAcCorp),
      Txn(10101, 0, DescZz),
      Txn(10000, 3, DescZz),
      Txn(-10000, 0, DescAcCo),
      Txn(50000, 0, DescEmpty) }

\* the records the callers of reconcile_transactions draw the lists from
EnhancedRecords ==
    { Txn(10000, 0, DescAcCo),
      Txn(10000, 20, DescAcCo),
      Txn(10101, 0, DescZz),
      Txn(-10000, 0, DescAcCo),
      Txn(50000, 0, DescEmpty),
      Txn(5000, 0, DescEmpty) }

\* the records of the runs that are repeated
RepeatRecords ==
    { Txn(10000, 0, DescAcCo),
      Txn(10001, 0, DescAcCorp),
      Txn(10101, 0, DescZz),
      Txn(50000, 0, DescEmpty) }

\* the records of the runs of an engine constructed with arguments
ConfigRecords ==
    { Txn(10000, 0, DescAcCo),
      Txn(10000, 2, DescAcCo),
      Txn(10001, 0, DescAcCo),
      Txn(10050, 0, DescZz) }

\* the transactions suggest_matches is asked about
SuggestTransactions ==
    { Txn(-10000, 0, DescAcCo),
      Txn(10000, 0, DescAcCo) }

\* the records the pools of suggest_matches are drawn from
SuggestRecords ==
    { Txn(10000, 0, DescAcCo),
      Txn(10000, 20, DescAcCo),
      Txn(10000, 0, DescZz),
      Txn(-10000, 0, DescAcCo) }

\* records with amounts of either sign and zero, for the scorers
ScoreRecords ==
    { Txn(10000, 0, DescAcCo),
      Txn(-10000, 0, DescAcCo),
      Txn(-5000, 20, DescAcCorp),
      Txn(0, 0, DescZz),
      Txn(10200, NoDate, DescEmpty) }

\* raw records, some of them malformed
RawRecords ==
    { Txn(10000, 0, DescAcCo),
      Txn(10101, 0, DescZz),
      Txn(BadAmount, 0, DescAcCo),
      Txn(10000, BadDate, DescAcCo),
      Txn(50000, NoDate, DescEmpty) }

\* the records of the "ACME Corp" / "ACME Corporation" scenario
ScenarioRecords ==
    { Txn(10000, 0, DescAcmeCorp),
      Txn(10000, 0, DescAcmeCorporation),
      Txn(10000, 0, DescZz) }

RECURSIVE ListsUpTo(_, _)
ListsUpTo(S, n) ==
    IF n = 0 THEN { <<>> }
    ELSE LET shorter == ListsUpTo(S, n - 1)
         IN  shorter \cup { Append(l, x) : l \in { m \in shorter : Len(m) = n - 1 }, x \in S }

(***************************************************************************)
(* Python numerics.                                                        *)
(***************************************************************************)
Abs(x) == IF x < 0 THEN -x ELSE x

Max(a, b) == IF a >= b THEN a ELSE b

RECURSIVE Pow10(_)
Pow10(n) == IF n = 0 THEN 1 ELSE 10 * Pow10(n - 1)

\* float(amount) followed by abs(): the magnitude, in cents
AbsFloat(a) == Abs(a)

\* round(amount * 100) of an amount given to the cent
Bucket(amount) == amount

\* double-precision a + b for the tenths the scorer adds
FloatAdd(a, b) ==
    CASE a = 600 /\ b = 300 -> 899
      [] a = 899 /\ b = 100 -> 999
      [] a = 700 /\ b = 100 -> 799
      [] a = 400 /\ b = 200 -> 601
      [] a = 601 /\ b = 100 -> 701
      [] a = 200 /\ b = 100 -> 301
      [] OTHER -> a + b

\* (t1 - t2).days: timedelta.days is the floor of the difference in days
TimedeltaDays(t1, t2) == (t1 - t2) \div HalfDaysPerDay

(***************************************************************************)
(* Descriptions: str.lower(), str.split(), difflib.SequenceMatcher.        *)
(***************************************************************************)
LowerChar(c) ==
    CASE c = "A" -> "a"
      [] c = "C" -> "c"
      [] OTHER -> c

\* str.lower()
Lower(s) == [k \in 1..Len(s) |-> LowerChar(s[k])]

\* s.split() from position i on, word being the run read so far
RECURSIVE SplitFrom(_, _, _)
SplitFrom(s, i, word) ==
    LET done == IF word = <<>> THEN {} ELSE {word}
    IN  IF i > Len(s) THEN done
        ELSE IF s[i] = " " THEN done \cup SplitFrom(s, i + 1, <<>>)
        ELSE SplitFrom(s, i + 1, Append(word, s[i]))

\* set(s.split()): the maximal runs of non-blank characters
WordSet(s) == SplitFrom(s, 1, <<>>)

\* a[i .. i+k-1] = b[j .. j+k-1]
BlockMatches(a, i, b, j, k) == \A d \in 0..(k - 1) : a[i + d] = b[j + d]

\* SequenceMatcher.find_longest_match on a[alo..ahi], b[blo..bhi]
\* (1-based, inclusive): the longest common block, the earliest in a and
\* then the earliest in b among the longest; size 0 when nothing matches.
find_longest_match(a, alo, ahi, b, blo, bhi) ==
    LET Blocks == { t \in (alo..ahi) \X (blo..bhi) \X (1..(ahi - alo + 1)) :
                      /\ t[1] + t[3] - 1 <= ahi
                      /\ t[2] + t[3] - 1 <= bhi
                      /\ BlockMatches(a, t[1], b, t[2], t[3]) }
    IN  IF Blocks = {} THEN <<alo, blo, 0>>
        ELSE CHOOSE t \in Blocks :
               \A u \in Blocks :
                 \/ t[3] > u[3]
                 \/ t[3] = u[3] /\ t[1] < u[1]
                 \/ t[3] = u[3] /\ t[1] = u[1] /\ t[2] <= u[2]

\* sum of the sizes of SequenceMatcher.get_matching_blocks()
RECURSIVE MatchingSize(_, _, _, _, _, _)
MatchingSize(a, alo, ahi, b, blo, bhi) ==
    IF alo > ahi \/ blo > bhi THEN 0
    ELSE LET m == find_longest_match(a, alo, ahi, b, blo, bhi)
         IN  IF m[3] = 0 THEN 0
             ELSE m[3]
                  + MatchingSize(a, alo, m[1] - 1, b, blo, m[2] - 1)
                  + MatchingSize(a, m[1] + m[3], ahi, b, m[2] + m[3], bhi)

\* EnhancedReconciliation.fuzzy_match_description: the ratio 2*M/T as the
\* fraction <<numerator, denominator>>; SequenceMatcher returns 1.0 for T = 0
fuzzy_match_description(desc1, desc2) ==
    LET a == Lower(desc1)
        b == Lower(desc2)
    IN  IF Len(a) + Len(b) = 0 THEN <<1, 1>>
        ELSE <<2 * MatchingSize(a, 1, Len(a), b, 1, Len(b)), Len(a) + Len(b)>>

(***************************************************************************)
(* SmartReconciliation: construction and the scorer.                       *)
(***************************************************************************)
\* SmartReconciliation.__init__: match_threshold = 0.85
match_threshold == 850

\* default of the amount_tolerance parameter, 0.01, in hundredths
amount_tolerance == 1

\* amount_diff <= bound, for amount_diff = abs(bank - book) / bank and a
\* bound of pct hundredths
AmountDiffWithin(bank_amount, book_amount, pct) ==
    Abs(bank_amount - book_amount) * 100 <= pct * bank_amount

\* AmountCredit with full credit up to the looser 5% band
AmountCreditLoose(bank_tx, book_tx, tol) ==
    LET bank_amount == AbsFloat(bank_tx.amount)
        book_amount == AbsFloat(book_tx.amount)
    IN  IF bank_amount > 0 /\ AmountDiffWithin(bank_amount, book_amount, 5) THEN 600 ELSE 0

AmountCredit(bank_tx, book_tx, tol) ==
    LET bank_amount == AbsFloat(bank_tx.amount)
        book_amount == AbsFloat(book_tx.amount)
    IN  IF bank_amount > 0
        THEN IF AmountDiffWithin(bank_amount, book_amount, tol) THEN 600
             ELSE IF AmountDiffWithin(bank_amount, book_amount, 5) THEN 400
             ELSE 0
        ELSE 0

\* the two fromisoformat calls of the scorer: made when both records carry
\* a date, a ValueError when one of the two is no ISO date
ScoreRaises(bank_tx, book_tx) ==
    /\ bank_tx.date # NoDate
    /\ book_tx.date # NoDate
    /\ (bank_tx.date = BadDate \/ book_tx.date = BadDate)

DateCredit(bank_tx, book_tx) ==
    IF bank_tx.date # NoDate /\ book_tx.date # NoDate
    THEN LET days_diff == Abs(TimedeltaDays(bank_tx.date, book_tx.date))
         IN  IF days_diff = 0 THEN 300
             ELSE IF days_diff <= 2 THEN 200
             ELSE IF days_diff <= 5 THEN 100
             ELSE 0
    ELSE 0

\* set(desc.lower().split()) of every description of the input domain,
\* computed once
LowerWords == [d \in Descriptions |-> WordSet(Lower(d))]

DescriptionCredit(bank_tx, book_tx) ==
    LET bank_desc == bank_tx.description
        book_desc == book_tx.description
    IN  IF Len(bank_desc) > 0 /\ Len(book_desc) > 0
           /\ LowerWords[bank_desc] \cap LowerWords[book_desc] # {}
        THEN 100
        ELSE 0

\* SmartReconciliation._calculate_match_score
calculate_match_score(bank_tx, book_tx, tol) ==
    FloatAdd(FloatAdd(FloatAdd(0, AmountCredit(bank_tx, book_tx, tol)),
                      DateCredit(bank_tx, book_tx)),
             DescriptionCredit(bank_tx, book_tx))

(***************************************************************************)
(* SmartReconciliation.fuzzy_match_transactions.                           *)
(***************************************************************************)
\* float(tx.get('amount', 0)) raises ValueError
FloatRaises(tx) == tx.amount = BadAmount

\* the index loop raises at the first book record whose amount is no number
IndexRaises(book) == \E k \in 1..Len(book) : FloatRaises(book[k])

\* the book records the index loop gets through
ParsedPrefix(book) ==
    IF IndexRaises(book)
    THEN SubSeq(book, 1, (CHOOSE k \in 1..Len(book) :
                            /\ FloatRaises(book[k])
                            /\ \A j \in 1..(k - 1) : ~FloatRaises(book[j])) - 1)
    ELSE book

\* the amount index: bucket -> positions of the book records in it, in
\* insertion order
IndexOf(book) ==
    LET Buckets == { Bucket(AbsFloat(book[k].amount)) : k \in 1..Len(book) }
    IN  [b \in Buckets |->
           SelectSeq([k \in 1..Len(book) |-> k],
                     LAMBDA k : Bucket(AbsFloat(book[k].amount)) = b)]

\* tolerance_buckets as ceil(bank_amount * amount_tolerance * 100), at least 1
tolerance_buckets_ceil(bank_amount, tol) ==
    Max(1, ((bank_amount * tol) + 99) \div 100)

\* int(bank_amount * amount_tolerance * 100) + 1, at least 1; the float
\* product truncates to the exact quotient for every amount of the input
\* domains (it falls one short for a few whole amounts such as 29.00)
tolerance_buckets(bank_amount, tol) ==
    Max(1, ((bank_amount * tol) \div 100) + 1)

RECURSIVE ConcatBuckets(_, _)
ConcatBuckets(index, buckets) ==
    IF buckets = {} THEN <<>>
    ELSE LET lowest == CHOOSE b \in buckets : \A c \in buckets : b <= c
         IN  index[lowest] \o ConcatBuckets(index, buckets \ {lowest})

\* ScanOrder without the test on matched_book_indices
ScanOrderAll(index, consumed, bank_tx, tol) ==
    LET bank_amount == AbsFloat(bank_tx.amount)
        bank_bucket == Bucket(bank_amount)
        span == tolerance_buckets(bank_amount, tol)
        window == { b \in DOMAIN index : bank_bucket - span <= b /\ b <= bank_bucket + span }
    IN  ConcatBuckets(index, window)

\* the book positions the two nested loops visit for one bank record, in
\* the order they visit them: buckets by ascending offset, each bucket in
\* insertion order, consumed positions skipped
ScanOrder(index, consumed, bank_tx, tol) ==
    LET bank_amount == AbsFloat(bank_tx.amount)
        bank_bucket == Bucket(bank_amount)
        span == tolerance_buckets(bank_amount, tol)
        window == { b \in DOMAIN index : bank_bucket - span <= b /\ b <= bank_bucket + span }
    IN  SelectSeq(ConcatBuckets(index, window), LAMBDA k : k \notin consumed)

\* the scored candidates of one bank record, in scan order
RECURSIVE ScoredUpTo(_, _, _, _, _)
ScoredUpTo(order, n, bank_tx, book, tol) ==
    IF n = 0 THEN <<>>
    ELSE Append(ScoredUpTo(order, n - 1, bank_tx, book, tol),
                [book |-> order[n],
                 score |-> calculate_match_score(bank_tx, book[order[n]], tol)])

Scored(order, bank_tx, book, tol) == ScoredUpTo(order, Len(order), bank_tx, book, tol)

\* BestOf without the threshold test
RECURSIVE BestOfAnyScore(_, _, _)
BestOfAnyScore(scored, n, threshold) ==
    IF n = 0 THEN [book |-> None, score |-> 0]
    ELSE LET best == BestOfAnyScore(scored, n - 1, threshold)
         IN  IF scored[n].score > best.score THEN scored[n] ELSE best

\* BestOf without the comparison with the running best
RECURSIVE BestOfLast(_, _, _)
BestOfLast(scored, n, threshold) ==
    IF n = 0 THEN [book |-> None, score |-> 0]
    ELSE LET best == BestOfLast(scored, n - 1, threshold)
         IN  IF scored[n].score >= threshold THEN scored[n] ELSE best

\* BestOf that keeps the first candidate that reaches the threshold
RECURSIVE BestOfFirst(_, _, _)
BestOfFirst(scored, n, threshold) ==
    IF n = 0 THEN [book |-> None, score |-> 0]
    ELSE LET best == BestOfFirst(scored, n - 1, threshold)
         IN  IF best.book = None /\ scored[n].score >= threshold THEN scored[n] ELSE best

\* the running best of the inner loop: a candidate replaces the best when
\* its score is strictly higher and reaches the threshold
RECURSIVE BestOf(_, _, _)
BestOf(scored, n, threshold) ==
    IF n = 0 THEN [book |-> None, score |-> 0]
    ELSE LET best == BestOf(scored, n - 1, threshold)
         IN  IF scored[n].score > best.score /\ scored[n].score >= threshold
             THEN scored[n]
             ELSE best

MatchedEntry(bank_pos, book_pos, score) ==
    [bank_transaction |-> bank_pos, book_transaction |-> book_pos,
     match_score |-> score, status |-> "matched"]

UnmatchedBankEntry(bank_pos) ==
    [bank_transaction |-> bank_pos, book_transaction |-> None,
     match_score |-> 0, status |-> "unmatched_bank"]

UnmatchedBookEntry(book_pos) ==
    [bank_transaction |-> None, book_transaction |-> book_pos,
     match_score |-> 0, status |-> "unmatched_book"]

\* StepUnmatchedBank without the else: every bank record is appended
StepUnmatchedBankAlways(unmatched, bank_pos, best) == Append(unmatched, bank_pos)

\* StepUnmatchedBank that puts the bank record at the head of the list
StepUnmatchedBankPrepend(unmatched, bank_pos, best) ==
    IF best.book # None THEN unmatched ELSE <<bank_pos>> \o unmatched

\* if best_match: ... else: unmatched_bank.append(bank_tx)
StepUnmatchedBank(unmatched, bank_pos, best) ==
    IF best.book # None THEN unmatched ELSE Append(unmatched, bank_pos)

\* StepMatches with the new match put in the place of the earlier ones
StepMatchesOverwrite(ms, bank_pos, best) ==
    IF best.book # None THEN <<MatchedEntry(bank_pos, best.book, best.score)>> ELSE ms

\* if best_match: matches.append({... 'status': 'matched'})
StepMatches(ms, bank_pos, best) ==
    IF best.book # None THEN Append(ms, MatchedEntry(bank_pos, best.book, best.score)) ELSE ms

\* StepConsumed without the add
StepConsumedNone(consumed, best) == consumed

\* if best_match: matched_book_indices.add(best_match_idx)
StepConsumed(consumed, best) ==
    IF best.book # None THEN consumed \cup {best.book} ELSE consumed

\* SmartLocals with the consumed set kept from the previous call
SmartLocalsKeepConsumed(bank, book) ==
    /\ bank_transactions' = bank
    /\ book_transactions' = book
    /\ book_amount_index' = IndexOf(ParsedPrefix(book))
    /\ matched_book_indices' = matched_book_indices
    /\ matches' = <<>>
    /\ unmatched_bank' = <<>>
    /\ unmatched_book' = <<>>
    /\ idx' = 0
    /\ considered' = <<>>

\* what a fresh call starts from: empty matches, the index, no consumed
\* position, no unmatched bank record
SmartLocals(bank, book) ==
    /\ bank_transactions' = bank
    /\ book_transactions' = book
    /\ book_amount_index' = IndexOf(ParsedPrefix(book))
    /\ matched_book_indices' = {}
    /\ matches' = <<>>
    /\ unmatched_bank' = <<>>
    /\ unmatched_book' = <<>>
    /\ idx' = 0
    /\ considered' = <<>>

\* a caller invokes fuzzy_match_transactions(bank, book), with bank and
\* book drawn from the given sets of lists
SmartCallWith(Banks, Books) ==
    /\ pc = "idle"
    /\ \E bank \in Banks, book \in Books :
         /\ SmartLocals(bank, book)
         /\ pc' = IF IndexRaises(book) THEN "raised" ELSE "loop"
         /\ error' = IF IndexRaises(book) THEN "ValueError" ELSE "none"
    /\ call' = "fuzzy_match_transactions"
    /\ runs' = 1
    /\ UNCHANGED <<self, result, audit_log, prev_result, suspended>>

SmartCallFrom(Recs) == SmartCallWith(ListsUpTo(Recs, MaxBank), ListsUpTo(Recs, MaxBook))

SmartCall == SmartCallFrom(Records)

\* one iteration of the loop over the bank records
SmartStep ==
    /\ pc = "loop"
    /\ call = "fuzzy_match_transactions"
    /\ idx < Len(bank_transactions)
    /\ LET bank_pos == idx + 1
           bank_tx == bank_transactions[bank_pos]
           order == ScanOrder(book_amount_index, matched_book_indices, bank_tx, amount_tolerance)
           scored == Scored(order, bank_tx, book_transactions, amount_tolerance)
           best == BestOf(scored, Len(scored), self.smart.match_threshold)
       IN  IF \/ FloatRaises(bank_tx)
              \/ \E n \in 1..Len(order) : ScoreRaises(bank_tx, book_transactions[order[n]])
           THEN /\ error' = "ValueError"
                /\ pc' = "raised"
                /\ UNCHANGED <<considered, matches, matched_book_indices, unmatched_bank, idx>>
           ELSE /\ considered' = Append(considered, scored)
                /\ matches' = StepMatches(matches, bank_pos, best)
                /\ matched_book_indices' = StepConsumed(matched_book_indices, best)
                /\ unmatched_bank' = StepUnmatchedBank(unmatched_bank, bank_pos, best)
                /\ idx' = idx + 1
                /\ UNCHANGED <<error, pc>>
    /\ UNCHANGED <<self, call, bank_transactions, book_transactions,
                   book_amount_index, unmatched_book, result,
                   audit_log, runs, prev_result, suspended>>

\* after the loop: the unmatched entries are appended and the list returned
SmartReturn ==
    /\ pc = "loop"
    /\ call = "fuzzy_match_transactions"
    /\ idx = Len(bank_transactions)
    /\ matches' = matches
                 \o [n \in 1..Len(unmatched_bank) |-> UnmatchedBankEntry(unmatched_bank[n])]
                 \o [n \in 1..Cardinality({k \in 1..Len(book_transactions) : k \notin matched_book_indices}) |->
                       UnmatchedBookEntry(
                         SelectSeq([k \in 1..Len(book_transactions) |-> k],
                                   LAMBDA k : k \notin matched_book_indices)[n])]
    /\ result' = matches'
    /\ pc' = "returned"
    /\ UNCHANGED <<self, call, bank_transactions, book_transactions,
                   book_amount_index, matched_book_indices, idx,
                   unmatched_bank, unmatched_book, considered, error,
                   audit_log, runs, prev_result, suspended>>

(***************************************************************************)
(* decimal.Decimal, as EnhancedReconciliation uses it.                     *)
(***************************************************************************)
Dec(c, e) == [coef |-> c, exp |-> e]

Min(a, b) == IF a <= b THEN a ELSE b

\* Decimal(str(amount)): str() of a float prints the shortest decimal that
\* reads back, "100.0" for 100.00 and "100.01" for 100.01
DecimalOfStr(amount) ==
    IF amount % 10 = 0 THEN Dec(amount \div 10, -1) ELSE Dec(amount, -2)

\* the coefficient of d at the (smaller or equal) exponent e
CoefAt(d, e) == d.coef * Pow10(d.exp - e)

DecAdd(x, y) ==
    LET e == Min(x.exp, y.exp) IN Dec(CoefAt(x, e) + CoefAt(y, e), e)

\* DecSub on the coefficients as they are, exponents not aligned
DecSubUnaligned(x, y) == Dec(x.coef - y.coef, Min(x.exp, y.exp))

DecSub(x, y) ==
    LET e == Min(x.exp, y.exp) IN Dec(CoefAt(x, e) - CoefAt(y, e), e)

DecAbs(x) == Dec(Abs(x.coef), x.exp)

DecGT(x, y) ==
    LET e == Min(x.exp, y.exp) IN CoefAt(x, e) > CoefAt(y, e)

\* sum(Decimal(str(t.get("amount", 0))) for t in txns), starting from int 0
RECURSIVE DecSum(_, _)
DecSum(txns, n) ==
    IF n = 0 THEN Dec(0, 0)
    ELSE DecAdd(DecSum(txns, n - 1), DecimalOfStr(txns[n].amount))

\* the value of a Decimal in cents (exponent -2 or larger)
CentsOf(d) == d.coef * Pow10(d.exp + 2)

(***************************************************************************)
(* EnhancedReconciliation.                                                 *)
(***************************************************************************)
\* an optional Decimal argument: not given (None), or given with a value
NoArg == [given |-> FALSE, value |-> Dec(0, 0)]

Arg(d) == [given |-> TRUE, value |-> d]

\* EnhancedReconciliation.__init__: "amount_tolerance or Decimal('0.01')"
\* takes the default for None and for a zero, the other two arguments are
\* stored as they come
EnhancedNew(tolerance_arg, days, threshold) ==
    [amount_tolerance |-> IF tolerance_arg.given /\ tolerance_arg.value.coef # 0
                          THEN tolerance_arg.value
                          ELSE Dec(1, -2),
     date_tolerance_days |-> days,
     description_match_threshold |-> threshold]

\* EnhancedReconciliation.__init__ with its default arguments
EnhancedInit == EnhancedNew(NoArg, 3, <<8, 10>>)

\* the arguments the callers of the constructor pass
ToleranceArgs == {NoArg, Arg(Dec(0, 0)), Arg(Dec(-1, -2)), Arg(Dec(5, -1))}

DaysArgs == {3, 0, -1}

\* SmartReconciliation.__init__
SmartInit == [match_threshold |-> match_threshold]

\* the type of min(amount_diff / amount_tolerance, 1): min returns its first
\* argument, the Decimal quotient, unless the int 1 is strictly smaller
MinWithOneType(amount_diff, tolerance) ==
    IF DecGT(amount_diff, tolerance) THEN "int" ELSE "Decimal"

\* TimesFloat for a Decimal that multiplies with a float
TimesFloatNeverRaises(type) == "float"

\* X * 0.3 for X = 1 - min(...): Decimal * float is a TypeError
TimesFloat(type) == IF type = "Decimal" THEN "TypeError" ELSE "float"

\* Decimal(str(txn.get("amount", 0))) and
\* datetime.fromisoformat(txn.get("date", "")) at the head of a loop body:
\* the error the first of them to fail raises, "none" when both parse
ParseError(txn) ==
    IF txn.amount = BadAmount THEN "InvalidOperation"
    ELSE IF txn.date \in {BadDate, NoDate} THEN "ValueError"
    ELSE "none"

\* one pass of the inner loop body for a bank and a book record:
\* "skip" (continue), "raise" with the error, or a score in thousandths
Candidate(eng, bank_txn, book_txn) ==
    LET amount_diff == DecAbs(DecSub(DecimalOfStr(bank_txn.amount), DecimalOfStr(book_txn.amount)))
        date_diff == Abs(TimedeltaDays(bank_txn.date, book_txn.date))
        desc_score == fuzzy_match_description(bank_txn.description, book_txn.description)
        date_part == 100 - Min((100 * date_diff) \div eng.date_tolerance_days, 100)
    IN  IF ParseError(book_txn) # "none"
        THEN [kind |-> "raise", error |-> ParseError(book_txn)]
        ELSE IF DecGT(amount_diff, eng.amount_tolerance) THEN [kind |-> "skip"]
        ELSE IF date_diff > eng.date_tolerance_days THEN [kind |-> "skip"]
        ELSE IF TimesFloat(MinWithOneType(amount_diff, eng.amount_tolerance)) = "TypeError"
             THEN [kind |-> "raise", error |-> "TypeError"]
        ELSE [kind |-> "scored",
              score |-> (600 * desc_score[1]) \div desc_score[2] + date_part,
              accept |-> desc_score[1] * eng.description_match_threshold[2]
                           >= eng.description_match_threshold[1] * desc_score[2]]

\* the inner loop over unmatched_book from position n on, with the running
\* best; it stops at the first candidate that raises
RECURSIVE InnerLoop(_, _, _, _, _)
InnerLoop(eng, bank_txn, pool, n, best) ==
    IF n > Len(pool) THEN best
    ELSE LET c == Candidate(eng, bank_txn, book_transactions[pool[n]])
         IN  IF c.kind = "raise" THEN [book |-> None, score |-> 0, error |-> c.error]
             ELSE IF c.kind = "scored" /\ c.score > best.score /\ c.accept
                  THEN InnerLoop(eng, bank_txn, pool, n + 1,
                                 [book |-> pool[n], score |-> c.score, error |-> "none"])
             ELSE InnerLoop(eng, bank_txn, pool, n + 1, best)

\* list.remove(x): drops the first element equal to x
RemoveFirst(pool, book_pos) ==
    LET first == CHOOSE n \in 1..Len(pool) :
                   /\ book_transactions[pool[n]] = book_transactions[book_pos]
                   /\ \A m \in 1..(n - 1) : book_transactions[pool[m]] # book_transactions[book_pos]
    IN  SubSeq(pool, 1, first - 1) \o SubSeq(pool, first + 1, Len(pool))

EnhancedMatch(bank_pos, book_pos, score) ==
    [bank_transaction |-> bank_pos, book_transaction |-> book_pos,
     match_score |-> score \div 10,
     match_type |-> IF score < 1000 THEN "fuzzy" ELSE "exact"]

\* EnhancedLocals with the list of unmatched book records starting empty
EnhancedLocalsNoBook(bank, book) ==
    /\ bank_transactions' = bank
    /\ book_transactions' = book
    /\ matches' = <<>>
    /\ unmatched_bank' = <<>>
    /\ unmatched_book' = <<>>
    /\ idx' = 0
    /\ considered' = <<>>
    /\ UNCHANGED <<book_amount_index, matched_book_indices>>

\* the locals of a fresh call: no match, no unmatched bank record, every
\* book record unmatched
EnhancedLocals(bank, book) ==
    /\ bank_transactions' = bank
    /\ book_transactions' = book
    /\ matches' = <<>>
    /\ unmatched_bank' = <<>>
    /\ unmatched_book' = [k \in 1..Len(book) |-> k]
    /\ idx' = 0
    /\ considered' = <<>>
    /\ UNCHANGED <<book_amount_index, matched_book_indices>>

\* a caller invokes reconcile_transactions(bank, book)
EnhancedCallFrom(Recs) ==
    /\ pc = "idle"
    /\ \E bank \in ListsUpTo(Recs, MaxBank), book \in ListsUpTo(Recs, MaxBook) :
         EnhancedLocals(bank, book)
    /\ call' = "reconcile_transactions"
    /\ pc' = "loop"
    /\ runs' = 1
    /\ UNCHANGED <<self, result, error, audit_log, prev_result, suspended>>

EnhancedCall == EnhancedCallFrom(EnhancedRecords)

\* one iteration of the loop over the bank records
EnhancedStep ==
    /\ pc = "loop"
    /\ call = "reconcile_transactions"
    /\ idx < Len(bank_transactions)
    /\ LET bank_pos == idx + 1
           best == IF ParseError(bank_transactions[bank_pos]) # "none"
                   THEN [book |-> None, score |-> 0,
                         error |-> ParseError(bank_transactions[bank_pos])]
                   ELSE InnerLoop(self.enhanced, bank_transactions[bank_pos], unmatched_book, 1,
                                  [book |-> None, score |-> 0, error |-> "none"])
       IN  IF best.error # "none"
           THEN /\ error' = best.error
                /\ pc' = "raised"
                /\ UNCHANGED <<matches, unmatched_bank, unmatched_book, idx>>
           ELSE /\ IF best.book # None
                   THEN /\ matches' = Append(matches, EnhancedMatch(bank_pos, best.book, best.score))
                        /\ unmatched_book' = RemoveFirst(unmatched_book, best.book)
                        /\ UNCHANGED unmatched_bank
                   ELSE /\ unmatched_bank' = Append(unmatched_bank, bank_pos)
                        /\ UNCHANGED <<matches, unmatched_book>>
                /\ idx' = idx + 1
                /\ UNCHANGED <<error, pc>>
    /\ UNCHANGED <<self, call, bank_transactions, book_transactions,
                   book_amount_index, matched_book_indices, considered,
                   result, audit_log, runs, prev_result, suspended>>

FirstTen(s) == SubSeq(s, 1, Min(10, Len(s)))

\* the bank amounts of the matches, as a list of transactions
MatchedBank(ms) == [n \in 1..Len(ms) |-> bank_transactions[ms[n].bank_transaction]]

\* ReportStatus with "or" for "and"
ReportStatusEither(n_bank, n_book) ==
    IF n_bank = 0 \/ n_book = 0 THEN "reconciled" ELSE "discrepancies"

ReportStatus(n_bank, n_book) ==
    IF n_bank = 0 /\ n_book = 0 THEN "reconciled" ELSE "discrepancies"

\* the summary block of the report
Summary(bank, book) ==
    LET total_bank == DecSum(bank, Len(bank))
        total_book == DecSum(book, Len(book))
    IN  [total_bank_amount |-> total_bank,
         total_book_amount |-> total_book,
         difference |-> DecSub(total_bank, total_book)]

\* sum(Decimal(str(t.get("amount", 0))) for t in txns) raises
\* decimal.InvalidOperation on an amount that is no number
SumRaises(txns) == \E n \in 1..Len(txns) : txns[n].amount = BadAmount

\* after the loop: the totals are summed, the report is built, the run is
\* logged, the report is returned
EnhancedReturn ==
    /\ pc = "loop"
    /\ call = "reconcile_transactions"
    /\ idx = Len(bank_transactions)
    /\ IF SumRaises(bank_transactions) \/ SumRaises(book_transactions)
       THEN /\ error' = "InvalidOperation"
            /\ pc' = "raised"
            /\ UNCHANGED <<result, audit_log>>
       ELSE /\ result' =
                 [status |-> ReportStatus(Len(unmatched_bank), Len(unmatched_book)),
                  total_transactions |-> [bank |-> Len(bank_transactions), book |-> Len(book_transactions)],
                  matched |-> [count |-> Len(matches),
                               amount |-> DecSum(MatchedBank(matches), Len(matches))],
                  unmatched_bank |-> [count |-> Len(unmatched_bank), transactions |-> FirstTen(unmatched_bank)],
                  unmatched_book |-> [count |-> Len(unmatched_book), transactions |-> FirstTen(unmatched_book)],
                  summary |-> Summary(bank_transactions, book_transactions)]
            /\ audit_log' = Append(audit_log,
                 [action |-> "reconcile_transactions",
                  status |-> IF result'.status = "reconciled" THEN "success" ELSE "warning",
                  details |-> [matched |-> Len(matches), unmatched_bank |-> Len(unmatched_bank),
                               unmatched_book |-> Len(unmatched_book)]])
            /\ pc' = "returned"
            /\ UNCHANGED error
    /\ UNCHANGED <<self, call, bank_transactions, book_transactions,
                   book_amount_index, matched_book_indices, idx, matches,
                   unmatched_bank, unmatched_book, considered,
                   runs, prev_result, suspended>>

(***************************************************************************)
(* EnhancedReconciliation.suggest_matches.  A float score is the exact     *)
(* fraction <<numerator, denominator>> it approximates; a confidence is    *)
(* the score rounded to hundredths.                                        *)
(***************************************************************************)
\* max(txn_amount, pot_amount) of two Decimals
DecMax(x, y) == IF DecGT(y, x) THEN y ELSE x

\* amount_score = 1 - min(abs(txn_amount - pot_amount) / max(txn_amount, pot_amount), 1):
\* the division fails on a zero maximum; min returns the int 1 only when
\* the quotient is strictly greater, and the score is then the int 0;
\* otherwise the score is the Decimal 1 - quotient, here the fraction
\* (max - diff) / max in cents
AmountScore(txn_amount, pot_amount) ==
    LET diff == DecAbs(DecSub(txn_amount, pot_amount))
        largest == DecMax(txn_amount, pot_amount)
    IN  IF largest.coef = 0
        THEN [type |-> IF diff.coef = 0 THEN "InvalidOperation" ELSE "DivisionByZero"]
        ELSE IF largest.coef > 0 /\ DecGT(diff, largest)
             THEN [type |-> "int", value |-> <<0, 1>>]
        ELSE [type |-> "Decimal",
              value |-> <<CentsOf(largest) - CentsOf(diff), CentsOf(largest)>>]

\* date_score = 1 - min(abs((txn_date - pot_date).days) / 30, 1), in thirtieths
DateScore(txn_date, pot_date) == 30 - Min(Abs(TimedeltaDays(txn_date, pot_date)), 30)

\* desc_score * 0.5 + amount_score * 0.3 + date_score * 0.2 for the int
\* amount_score 0, as a fraction
OverallScore(desc_score, date_score) ==
    <<75 * desc_score[1] + date_score * desc_score[2], 150 * desc_score[2]>>

\* round(x, 2) of a fraction that is not negative, in hundredths
Round2(x) == (200 * x[1] + x[2]) \div (2 * x[2])

\* the body of the loop over potential_matches for one candidate:
\* "raise" with the error, or the scores
Suggestion(eng, txn, potential) ==
    LET amount_score == AmountScore(DecimalOfStr(txn.amount), DecimalOfStr(potential.amount))
        date_score == DateScore(txn.date, potential.date)
        desc_score == fuzzy_match_description(txn.description, potential.description)
        overall_score == OverallScore(desc_score, date_score)
    IN  IF ParseError(potential) # "none"
        THEN [kind |-> "raise", error |-> ParseError(potential)]
        ELSE IF amount_score.type \in {"InvalidOperation", "DivisionByZero"}
             THEN [kind |-> "raise", error |-> amount_score.type]
        ELSE IF TimesFloat(amount_score.type) = "TypeError"
             THEN [kind |-> "raise", error |-> "TypeError"]
        ELSE [kind |-> "scored",
              qualifies |-> 2 * overall_score[1] >= overall_score[2],
              overall_score |-> overall_score,
              confidence |-> Round2(overall_score),
              scores |-> [description |-> Round2(desc_score),
                          amount |-> 0,
                          date |-> Round2(<<date_score, 30>>)]]

SuggestionEntry(pot_pos, c) ==
    [transaction |-> pot_pos, confidence |-> c.confidence, scores |-> c.scores]

\* list.sort(key=confidence, reverse=True): a stable sort, entries of equal
\* confidence keep their order
RECURSIVE SortByConfidence(_, _)
SortByConfidence(entries, n) ==
    IF n = 0 THEN <<>>
    ELSE LET sorted == SortByConfidence(entries, n - 1)
             e == entries[n]
             before == Cardinality({ j \in 1..Len(sorted) : sorted[j].confidence >= e.confidence })
         IN  SubSeq(sorted, 1, before) \o <<e>> \o SubSeq(sorted, before + 1, Len(sorted))

\* suggestions[:5]
FirstFive(entries) == SubSeq(entries, 1, Min(5, Len(entries)))

\* SuggestLocals with the suggestions of the call before kept
SuggestLocalsKeepSuggestions(txn, pool) ==
    /\ bank_transactions' = <<txn>>
    /\ book_transactions' = pool
    /\ matches' = matches
    /\ idx' = 0
    /\ pc' = IF ParseError(txn) # "none" THEN "raised" ELSE "loop"
    /\ error' = ParseError(txn)
    /\ call' = "suggest_matches"
    /\ UNCHANGED <<self, book_amount_index, matched_book_indices, unmatched_bank,
                   unmatched_book, considered, result, audit_log>>

\* what a call of suggest_matches starts from: the transaction is parsed,
\* the list of suggestions is empty; the engine and the pool are only read
SuggestLocals(txn, pool) ==
    /\ bank_transactions' = <<txn>>
    /\ book_transactions' = pool
    /\ matches' = <<>>
    /\ idx' = 0
    /\ pc' = IF ParseError(txn) # "none" THEN "raised" ELSE "loop"
    /\ error' = ParseError(txn)
    /\ call' = "suggest_matches"
    /\ UNCHANGED <<self, book_amount_index, matched_book_indices, unmatched_bank,
                   unmatched_book, considered, result, audit_log>>

\* a caller invokes suggest_matches(unmatched_transaction, potential_matches)
SuggestCallFrom(Transactions, Recs, longest) ==
    /\ pc = "idle"
    /\ \E txn \in Transactions, pool \in ListsUpTo(Recs, longest) :
         SuggestLocals(txn, pool)
    /\ runs' = 1
    /\ UNCHANGED <<prev_result, suspended>>

SuggestCall == SuggestCallFrom(SuggestTransactions, SuggestRecords, MaxPool)

\* one iteration of the loop over potential_matches
SuggestStep ==
    /\ pc = "loop"
    /\ call = "suggest_matches"
    /\ idx < Len(book_transactions)
    /\ LET pot_pos == idx + 1
           c == Suggestion(self.enhanced, bank_transactions[1], book_transactions[pot_pos])
       IN  IF c.kind = "raise"
           THEN /\ error' = c.error
                /\ pc' = "raised"
                /\ UNCHANGED <<matches, idx>>
           ELSE /\ matches' = IF c.qualifies
                              THEN Append(matches, SuggestionEntry(pot_pos, c))
                              ELSE matches
                /\ idx' = idx + 1
                /\ UNCHANGED <<error, pc>>
    /\ UNCHANGED <<self, call, bank_transactions, book_transactions,
                   book_amount_index, matched_book_indices, unmatched_bank,
                   unmatched_book, considered, result, audit_log, runs,
                   prev_result, suspended>>

\* after the loop: the suggestions are sorted in place, the call is logged,
\* the first five are returned
SuggestReturn ==
    /\ pc = "loop"
    /\ call = "suggest_matches"
    /\ idx = Len(book_transactions)
    /\ matches' = SortByConfidence(matches, Len(matches))
    /\ audit_log' = Append(audit_log,
         [action |-> "suggest_transaction_matches",
          status |-> "success",
          details |-> [suggestions |-> Len(matches)]])
    /\ result' = FirstFive(matches')
    /\ pc' = "returned"
    /\ UNCHANGED <<self, call, bank_transactions, book_transactions,
                   book_amount_index, matched_book_indices, idx,
                   unmatched_bank, unmatched_book, considered, error,
                   runs, prev_result, suspended>>

(***************************************************************************)
(* The same call made again on the same engine with the same arguments.    *)
(***************************************************************************)
Again ==
    /\ pc \in {"returned", "raised"}
    /\ runs < MaxRuns
    /\ IF call = "fuzzy_match_transactions"
       THEN /\ SmartLocals(bank_transactions, book_transactions)
            /\ pc' = IF IndexRaises(book_transactions) THEN "raised" ELSE "loop"
            /\ error' = IF IndexRaises(book_transactions) THEN "ValueError" ELSE "none"
       ELSE /\ EnhancedLocals(bank_transactions, book_transactions)
            /\ pc' = "loop"
            /\ error' = "none"
    /\ prev_result' = [call |-> call, pc |-> pc, error |-> error, value |-> result]
    /\ UNCHANGED suspended
    /\ runs' = runs + 1
    /\ UNCHANGED <<self, call, result, audit_log>>

(***************************************************************************)
(* Two callers on one engine.  The variables above hold the locals of the  *)
(* call that is running; suspended holds the locals of the other caller,   *)
(* whose call has not begun, is interrupted between two steps, or is over. *)
(***************************************************************************)
\* the locals of a caller that has made no call
NoFrame ==
    [call |-> "none", pc |-> "idle", bank_transactions |-> <<>>,
     book_transactions |-> <<>>, book_amount_index |-> <<>>,
     matched_book_indices |-> {}, idx |-> 0, matches |-> <<>>,
     unmatched_bank |-> <<>>, unmatched_book |-> <<>>, considered |-> <<>>,
     result |-> <<>>, error |-> "none"]

\* the locals of the running call
Frame ==
    [call |-> call, pc |-> pc, bank_transactions |-> bank_transactions,
     book_transactions |-> book_transactions, book_amount_index |-> book_amount_index,
     matched_book_indices |-> matched_book_indices, idx |-> idx, matches |-> matches,
     unmatched_bank |-> unmatched_bank, unmatched_book |-> unmatched_book,
     considered |-> considered, result |-> result, error |-> error]

\* Resume with one consumed set for both callers
ResumeSharedConsumed(frame) ==
    /\ call' = frame.call
    /\ pc' = frame.pc
    /\ bank_transactions' = frame.bank_transactions
    /\ book_transactions' = frame.book_transactions
    /\ book_amount_index' = frame.book_amount_index
    /\ matched_book_indices' = matched_book_indices
    /\ idx' = frame.idx
    /\ matches' = frame.matches
    /\ unmatched_bank' = frame.unmatched_bank
    /\ unmatched_book' = frame.unmatched_book
    /\ considered' = frame.considered
    /\ result' = frame.result
    /\ error' = frame.error

\* the other caller runs on: every local of fuzzy_match_transactions
\* (matches, book_amount_index, matched_book_indices, unmatched_bank, the
\* loop position) is a local of the call, none is an attribute of the engine
Resume(frame) ==
    /\ call' = frame.call
    /\ pc' = frame.pc
    /\ bank_transactions' = frame.bank_transactions
    /\ book_transactions' = frame.book_transactions
    /\ book_amount_index' = frame.book_amount_index
    /\ matched_book_indices' = frame.matched_book_indices
    /\ idx' = frame.idx
    /\ matches' = frame.matches
    /\ unmatched_bank' = frame.unmatched_bank
    /\ unmatched_book' = frame.unmatched_book
    /\ considered' = frame.considered
    /\ result' = frame.result
    /\ error' = frame.error

\* the scheduler passes control from the running caller to the other one
Switch ==
    /\ suspended' = Frame
    /\ Resume(suspended)
    /\ UNCHANGED <<self, audit_log, runs, prev_result>>

Init ==
    /\ self = [smart |-> SmartInit, enhanced |-> EnhancedInit]
    /\ call = "none"
    /\ pc = "idle"
    /\ bank_transactions = <<>>
    /\ book_transactions = <<>>
    /\ book_amount_index = <<>>
    /\ matched_book_indices = {}
    /\ idx = 0
    /\ matches = <<>>
    /\ unmatched_bank = <<>>
    /\ unmatched_book = <<>>
    /\ considered = <<>>
    /\ result = <<>>
    /\ error = "none"
    /\ audit_log = <<>>
    /\ runs = 0
    /\ prev_result = [call |-> "none", pc |-> "idle", error |-> "none", value |-> <<>>]
    /\ suspended = NoFrame

Next ==
    \/ SmartCall
    \/ SmartStep
    \/ SmartReturn
    \/ EnhancedCall
    \/ EnhancedStep
    \/ EnhancedReturn

Spec == Init /\ [][Next]_vars

\* repeated runs: every call is made again with the same arguments
SmartCallRepeat == SmartCallFrom(RepeatRecords)

EnhancedCallRepeat == EnhancedCallFrom(RepeatRecords)

NextRepeat ==
    \/ SmartCallRepeat
    \/ SmartStep
    \/ SmartReturn
    \/ EnhancedCallRepeat
    \/ EnhancedStep
    \/ EnhancedReturn
    \/ Again

SpecRepeat == Init /\ [][NextRepeat]_vars

\* suggest_matches called again with the same transaction and pool
SuggestAgain ==
    /\ call = "suggest_matches"
    /\ pc \in {"returned", "raised"}
    /\ runs < MaxRuns
    /\ SuggestLocals(bank_transactions[1], book_transactions)
    /\ prev_result' = [call |-> call, pc |-> pc, error |-> error, value |-> result]
    /\ UNCHANGED suspended
    /\ runs' = runs + 1

\* after a run of reconcile_transactions over one bank record, the caller
\* asks for suggestions for that record among the same book records
SuggestAfterBatch ==
    /\ call = "reconcile_transactions"
    /\ pc \in {"returned", "raised"}
    /\ prev_result.call = "none"
    /\ Len(bank_transactions) = 1
    /\ SuggestLocals(bank_transactions[1], book_transactions)
    /\ prev_result' = [call |-> call, pc |-> pc, error |-> error, value |-> result]
    /\ UNCHANGED suspended
    /\ UNCHANGED runs

\* after the suggestions for a bank record, the caller runs
\* reconcile_transactions over the same bank record and book records again
BatchAfterSuggest ==
    /\ call = "suggest_matches"
    /\ pc \in {"returned", "raised"}
    /\ prev_result.call = "reconcile_transactions"
    /\ EnhancedLocals(bank_transactions, book_transactions)
    /\ call' = "reconcile_transactions"
    /\ pc' = "loop"
    /\ error' = "none"
    /\ UNCHANGED <<self, result, audit_log, runs, prev_result, suspended>>

\* the records of the calls of suggest_matches that are repeated
SuggestRepeatRecords ==
    { Txn(-10000, 0, DescAcCo),
      Txn(10000, 0, DescAcCo),
      Txn(10000, 20, DescAcCo) }

SuggestCallRepeat == SuggestCallFrom(SuggestRepeatRecords, SuggestRepeatRecords, MaxBook)

EnhancedCallBefore == EnhancedCallFrom(SuggestRepeatRecords)

NextSuggestRepeat ==
    \/ SuggestCallRepeat
    \/ SuggestStep
    \/ SuggestReturn
    \/ SuggestAgain
    \/ EnhancedCallBefore
    \/ EnhancedStep
    \/ EnhancedReturn
    \/ SuggestAfterBatch
    \/ BatchAfterSuggest

SpecSuggestRepeat == Init /\ [][NextSuggestRepeat]_vars

\* runs over the records of the scenario
SmartCallScenario == SmartCallFrom(ScenarioRecords)

EnhancedCallScenario == EnhancedCallFrom(ScenarioRecords)

NextScenario ==
    \/ SmartCallScenario
    \/ SmartStep
    \/ SmartReturn
    \/ EnhancedCallScenario
    \/ EnhancedStep
    \/ EnhancedReturn

SpecScenario == Init /\ [][NextScenario]_vars

\* a caller constructs an EnhancedReconciliation with arguments of its own
EnhancedConstruct ==
    /\ pc = "idle"
    /\ \E tolerance_arg \in ToleranceArgs, days \in DaysArgs :
         self' = [self EXCEPT !.enhanced = EnhancedNew(tolerance_arg, days, <<8, 10>>)]
    /\ UNCHANGED <<call, pc, bank_transactions, book_transactions,
                   book_amount_index, matched_book_indices, idx, matches,
                   unmatched_bank, unmatched_book, considered, result,
                   error, audit_log, runs, prev_result, suspended>>

\* runs of an engine constructed with arguments
EnhancedCallConfig == EnhancedCallFrom(ConfigRecords)

NextConfig ==
    \/ EnhancedConstruct
    \/ EnhancedCallConfig
    \/ EnhancedStep
    \/ EnhancedReturn

SpecConfig == Init /\ [][NextConfig]_vars

\* calls of suggest_matches
NextSuggest ==
    \/ SuggestCall
    \/ SuggestStep
    \/ SuggestReturn

SpecSuggest == Init /\ [][NextSuggest]_vars

\* the scorers applied to records of either sign
SmartCallScore == SmartCallFrom(ScoreRecords)

SuggestCallScore == SuggestCallFrom(ScoreRecords, ScoreRecords, MaxBook)

NextScore ==
    \/ SmartCallScore
    \/ SmartStep
    \/ SmartReturn
    \/ SuggestCallScore
    \/ SuggestStep
    \/ SuggestReturn

SpecScore == Init /\ [][NextScore]_vars

\* runs over raw records
SmartCallRaw == SmartCallFrom(RawRecords)

EnhancedCallRaw == EnhancedCallFrom(RawRecords)

NextRaw ==
    \/ SmartCallRaw
    \/ SmartStep
    \/ SmartReturn
    \/ EnhancedCallRaw
    \/ EnhancedStep
    \/ EnhancedReturn

SpecRaw == Init /\ [][NextRaw]_vars

\* the records of the requests that two callers send at the same time
ConcurrentRecords ==
    { Txn(10000, 0, DescAcCo),
      Txn(10001, 0, DescAcCorp) }

\* a request to /api/reconcile/transactions reaches the module-level
\* engine, possibly while the request of the other caller is being served;
\* each request carries MaxBank bank records
SmartCallConcurrent ==
    SmartCallWith({ bank \in ListsUpTo(ConcurrentRecords, MaxBank) : Len(bank) = MaxBank },
                  ListsUpTo(ConcurrentRecords, MaxBook))

NextConcurrent ==
    \/ SmartCallConcurrent
    \/ SmartStep
    \/ SmartReturn
    \/ Switch

SpecConcurrent == Init /\ [][NextConcurrent]_vars

\* records stamped with a time of day: midnight, noon of the same day, and
\* noon three days later
TimestampRecords ==
    { Txn(10000, 0, DescAcCo),
      Txn(10000, 1, DescZz),
      Txn(10000, 7, DescAcCo) }

\* runs over records stamped with a time of day
SmartCallTimestamp == SmartCallFrom(TimestampRecords)

EnhancedCallTimestamp == EnhancedCallFrom(TimestampRecords)

NextTimestamp ==
    \/ SmartCallTimestamp
    \/ SmartStep
    \/ SmartReturn
    \/ EnhancedCallTimestamp
    \/ EnhancedStep
    \/ EnhancedReturn

SpecTimestamp == Init /\ [][NextTimestamp]_vars

(***************************************************************************)
(* Properties.                                                             *)
(***************************************************************************)
Smart == call = "fuzzy_match_transactions"

Enhanced == call = "reconcile_transactions"

Returned == pc = "returned"

\* the positions of the entries of the fuzzy_match_transactions list with
\* a given status
EntriesWith(st) == { n \in DOMAIN matches : matches[n].status = st }

\* bank record b is matched to book record k
MatchedTo(b, k) ==
    \E n \in DOMAIN matches :
        /\ matches[n].bank_transaction = b
        /\ matches[n].book_transaction = k
        /\ (Smart => matches[n].status = "matched")

RECURSIVE SumCents(_, _)
SumCents(txns, n) == IF n = 0 THEN 0 ELSE SumCents(txns, n - 1) + txns[n].amount

\* C1: after a run, every bank record is in exactly one of the matched and
\* the unmatched-bank entries, and their numbers add up to the number of
\* bank records.
C1_BankPartition ==
    Returned =>
        IF Smart
        THEN /\ \A b \in DOMAIN bank_transactions :
                  Cardinality({ n \in EntriesWith("matched") \cup EntriesWith("unmatched_bank") :
                                  result[n].bank_transaction = b }) = 1
             /\ Cardinality(EntriesWith("matched")) + Cardinality(EntriesWith("unmatched_bank"))
                  = Len(bank_transactions)
        ELSE /\ \A b \in DOMAIN bank_transactions :
                  Cardinality({ n \in DOMAIN matches : matches[n].bank_transaction = b })
                    + Cardinality({ n \in DOMAIN unmatched_bank : unmatched_bank[n] = b }) = 1
             /\ result.matched.count + result.unmatched_bank.count = Len(bank_transactions)
             /\ result.total_transactions.bank = Len(bank_transactions)

C1_Witness ==
    /\ Returned
    /\ Smart
    /\ EntriesWith("matched") # {}
    /\ EntriesWith("unmatched_bank") # {}

\* C2: after a run, every book record is the book side of exactly one match
\* or is reported unmatched_book, never both and never neither, duplicates
\* in the book list included.
C2_BookPartition ==
    Returned =>
        IF Smart
        THEN /\ \A k \in DOMAIN book_transactions :
                  Cardinality({ n \in EntriesWith("matched") \cup EntriesWith("unmatched_book") :
                                  result[n].book_transaction = k }) = 1
             /\ Cardinality(EntriesWith("matched")) + Cardinality(EntriesWith("unmatched_book"))
                  = Len(book_transactions)
        ELSE /\ \A k \in DOMAIN book_transactions :
                  Cardinality({ n \in DOMAIN matches : matches[n].book_transaction = k })
                    + Cardinality({ n \in DOMAIN unmatched_book : unmatched_book[n] = k }) = 1
             /\ result.matched.count + result.unmatched_book.count = Len(book_transactions)
             /\ result.total_transactions.book = Len(book_transactions)

C2_Witness ==
    /\ Returned
    /\ Smart
    /\ \E j, k \in DOMAIN book_transactions :
         /\ j # k
         /\ book_transactions[j] = book_transactions[k]
         /\ \E n \in EntriesWith("matched") : result[n].book_transaction = j
         /\ \E n \in EntriesWith("unmatched_book") : result[n].book_transaction = k

\* C3: no book record, identified by its position, is the book side of two
\* matches of a run.
C3_Injective ==
    \A m, n \in DOMAIN matches :
        (/\ m # n
         /\ (Smart => matches[m].status = "matched" /\ matches[n].status = "matched"))
        => matches[m].book_transaction # matches[n].book_transaction

C3_Witness ==
    /\ Returned
    /\ Smart
    /\ Len(bank_transactions) >= 2
    /\ bank_transactions[1] = bank_transactions[2]
    /\ \E m, n \in EntriesWith("matched") :
         /\ result[m].bank_transaction = 1
         /\ result[n].bank_transaction = 2
         /\ 2 \in { c.book : c \in { considered[1][i] : i \in DOMAIN considered[1] } }

\* C4: every entry with status 'matched' carries a score at or above
\* match_threshold.
C4_Threshold ==
    Smart => \A n \in EntriesWith("matched") :
                 matches[n].match_score >= self.smart.match_threshold

C4_Witness ==
    /\ Returned
    /\ Smart
    /\ \E n \in EntriesWith("matched") : result[n].match_score = 899

\* the candidates scored for bank record b
ConsideredFor(b) == { considered[b][i] : i \in DOMAIN considered[b] }

\* the magnitude of the book amount is within the relative tolerance of the
\* magnitude of the bank amount
MagnitudeWithin(bank_tx, book_tx) ==
    /\ Abs(bank_tx.amount) > 0
    /\ Abs(Abs(bank_tx.amount) - Abs(book_tx.amount)) * 100 <= amount_tolerance * Abs(bank_tx.amount)

\* C5 as stated: every candidate considered for a bank record and not
\* matched to it scored below the threshold or was amount-ineligible.
C5_Original ==
    Smart =>
        \A b \in DOMAIN considered : \A c \in ConsideredFor(b) :
            ~MatchedTo(b, c.book) =>
                \/ c.score < self.smart.match_threshold
                \/ ~MagnitudeWithin(bank_transactions[b], book_transactions[c.book])

\* C5 amended: every candidate considered for a bank record and not matched
\* to it scored below the threshold, or was amount-ineligible, or lost to the
\* candidate the bank record was matched to, whose score is not lower.
C5_Rejected ==
    Smart =>
        \A b \in DOMAIN considered : \A c \in ConsideredFor(b) :
            ~MatchedTo(b, c.book) =>
                \/ c.score < self.smart.match_threshold
                \/ ~MagnitudeWithin(bank_transactions[b], book_transactions[c.book])
                \/ \E n \in EntriesWith("matched") :
                     /\ matches[n].bank_transaction = b
                     /\ matches[n].match_score >= c.score

C5_Witness ==
    /\ Returned
    /\ Smart
    /\ \E b \in DOMAIN considered : \E c \in ConsideredFor(b) :
         /\ ~MatchedTo(b, c.book)
         /\ c.score >= self.smart.match_threshold
         /\ MagnitudeWithin(bank_transactions[b], book_transactions[c.book])
         /\ \E k \in DOMAIN book_transactions : MatchedTo(b, k)

\* the signed book amount is within the tolerance of the signed bank amount
SignedWithin(bank_tx, book_tx) ==
    IF Smart
    THEN Abs(bank_tx.amount - book_tx.amount) * 100 <= amount_tolerance * Abs(bank_tx.amount)
    ELSE Abs(bank_tx.amount - book_tx.amount) <= CentsOf(self.enhanced.amount_tolerance)

BankUnmatched(b) ==
    IF Smart
    THEN \E n \in EntriesWith("unmatched_bank") : result[n].bank_transaction = b
    ELSE \E n \in DOMAIN unmatched_bank : unmatched_bank[n] = b

WithinAsMeasured(bank_tx, book_tx) ==
    IF Smart THEN MagnitudeWithin(bank_tx, book_tx) ELSE SignedWithin(bank_tx, book_tx)

C7_EarliestTie ==
    Smart =>
        \A n \in EntriesWith("matched") :
            \A c \in ConsideredFor(matches[n].bank_transaction) :
                c.score = matches[n].match_score => matches[n].book_transaction <= c.book

\* C8: a run repeated on the same engine with the same lists ends as the
\* first did, with the same returned value.
C8_Deterministic ==
    (runs >= 2 /\ pc \in {"returned", "raised"})
        => prev_result = [call |-> call, pc |-> pc, error |-> error, value |-> result]

C8_Witness ==
    /\ runs = 2
    /\ Returned
    /\ Smart
    /\ EntriesWith("matched") # {}
    /\ EntriesWith("unmatched_book") # {}
    /\ EntriesWith("unmatched_bank") # {}

\* C9: the status of a report is 'reconciled' exactly when no bank record
\* and no book record is left unmatched, and 'discrepancies' otherwise.
C9_Status ==
    (Returned /\ Enhanced) =>
        /\ result.status \in {"reconciled", "discrepancies"}
        /\ result.status = "reconciled"
             <=> /\ \A b \in DOMAIN bank_transactions : \E k \in DOMAIN book_transactions : MatchedTo(b, k)
                 /\ \A k \in DOMAIN book_transactions : \E b \in DOMAIN bank_transactions : MatchedTo(b, k)
        /\ result.status = "reconciled"
             <=> (result.unmatched_bank.count = 0 /\ result.unmatched_book.count = 0)

C9_Witness ==
    /\ Returned
    /\ Enhanced
    /\ bank_transactions = <<>>
    /\ Len(book_transactions) = 1
    /\ result.status = "discrepancies"

\* C10: the difference of a report is the sum of all bank amounts minus the
\* sum of all book amounts, to the cent.
C10_Difference ==
    (Returned /\ Enhanced) =>
        /\ CentsOf(result.summary.total_bank_amount) = SumCents(bank_transactions, Len(bank_transactions))
        /\ CentsOf(result.summary.total_book_amount) = SumCents(book_transactions, Len(book_transactions))
        /\ CentsOf(result.summary.difference)
             = SumCents(bank_transactions, Len(bank_transactions))
               - SumCents(book_transactions, Len(book_transactions))

C10_Witness ==
    /\ Returned
    /\ Enhanced
    /\ result.summary.total_bank_amount.exp # result.summary.total_book_amount.exp
    /\ result.summary.total_bank_amount.coef # 0
    /\ result.summary.total_book_amount.coef # 0
    /\ result.summary.difference.coef # 0
    /\ Len(bank_transactions) >= 2

ScenarioA ==
    /\ Len(bank_transactions) = 1
    /\ Len(book_transactions) = 1
    /\ bank_transactions[1].amount = book_transactions[1].amount
    /\ bank_transactions[1].date = book_transactions[1].date
    /\ bank_transactions[1].description # book_transactions[1].description
    /\ LowerWords[bank_transactions[1].description]
         \cap LowerWords[book_transactions[1].description] # {}

\* the run is over: it returned or it raised
Finished == pc \in {"returned", "raised"}

\* what fuzzy_match_transactions returns for the scenario: one matched
\* entry, full amount and date credit, a score above the threshold
SmartScenarioMatched ==
    (Finished /\ Smart /\ ScenarioA) =>
        /\ Returned
        /\ Len(result) = 1
        /\ result[1].status = "matched"
        /\ result[1].match_score > match_threshold
        /\ AmountCredit(bank_transactions[1], book_transactions[1], amount_tolerance) = 600
        /\ DateCredit(bank_transactions[1], book_transactions[1]) = 300

\* C12: a bank record and a single book record with equal amount, equal
\* date and descriptions that share a word without being identical are
\* matched: the run yields exactly one match, above the threshold.
C12_ScenarioMatched ==
    /\ SmartScenarioMatched
    /\ (Finished /\ Enhanced /\ ScenarioA) =>
          /\ Returned
          /\ result.matched.count = 1

C13_WitnessNoBook ==
    /\ Returned
    /\ Smart
    /\ book_transactions = <<>>
    /\ Len(result) = 2

C13_WitnessNeither ==
    /\ Returned
    /\ Smart
    /\ bank_transactions = <<>>
    /\ result = <<>>

\* a record whose amount or date cannot be parsed
Malformed(txn) == txn.amount = BadAmount \/ txn.date = BadDate

\* the position of a record in the result of a run: an entry of the list
\* of fuzzy_match_transactions, or a match or unmatched record of the report
Reported(side, n) ==
    IF Smart
    THEN \E e \in DOMAIN result :
            IF side = "bank" THEN result[e].bank_transaction = n
            ELSE result[e].book_transaction = n
    ELSE IF side = "bank"
         THEN \/ \E m \in DOMAIN matches : matches[m].bank_transaction = n
              \/ \E u \in DOMAIN unmatched_bank : unmatched_bank[u] = n
         ELSE \/ \E m \in DOMAIN matches : matches[m].book_transaction = n
              \/ \E u \in DOMAIN unmatched_book : unmatched_book[u] = n

\* C14: a record whose amount or date cannot be parsed is dropped on its
\* own: the run does not fail on it, it is absent from the matches and
\* the unmatched records, and every other record is still reported.
C14_DroppedIndividually ==
    /\ Finished => error \notin {"ValueError", "InvalidOperation"}
    /\ Returned =>
          /\ \A b \in DOMAIN bank_transactions :
                Malformed(bank_transactions[b]) <=> ~Reported("bank", b)
          /\ \A k \in DOMAIN book_transactions :
                Malformed(book_transactions[k]) <=> ~Reported("book", k)

\* the batch fails on the malformed record
C14_BatchFails ==
    /\ pc = "raised"
    /\ error \in {"ValueError", "InvalidOperation"}
    /\ \E b \in DOMAIN bank_transactions : ~Malformed(bank_transactions[b])
    /\ \E k \in DOMAIN book_transactions : Malformed(book_transactions[k])

\* the malformed record is reported like any other
C14_ReportedAsUnmatched ==
    /\ Returned
    /\ \E b \in DOMAIN bank_transactions :
          Malformed(bank_transactions[b]) /\ Reported("bank", b)

\* a configuration the matching is defined for: a tolerance that is not
\* negative, a positive number of days
ValidConfig(eng) ==
    /\ eng.amount_tolerance.coef >= 0
    /\ eng.date_tolerance_days > 0

\* C15: an invalid configuration (negative amount tolerance, negative or
\* zero date tolerance) is rejected at construction: no engine holds one
\* and no run starts with one.
C15_RejectedAtConstruction ==
    /\ ValidConfig(self.enhanced)
    /\ (Enhanced /\ pc # "idle") => ValidConfig(self.enhanced)

\* a run with a negative tolerance returns a report in which two equal
\* records are both unmatched
C15_RunWithNegativeTolerance ==
    /\ Returned
    /\ Enhanced
    /\ self.enhanced.amount_tolerance.coef < 0
    /\ Len(bank_transactions) = 1
    /\ bank_transactions = book_transactions
    /\ result.unmatched_bank.count = 1
    /\ result.unmatched_book.count = 1

\* fuzzy_match_transactions over well-formed records never raises
SmartCompletes == Smart => (pc # "raised" /\ error = "none")

\* C16: with a valid configuration a run over well-formed records always
\* completes and returns a report: no step of the loop raises, for pairs
\* that pass the amount and date filters too.
C16_AlwaysCompletes ==
    /\ SmartCompletes
    /\ Enhanced => (pc # "raised" /\ error = "none")

\* reconcile_transactions raised on two identical records
C16_RaisedOnIdenticalPair ==
    /\ Enhanced
    /\ pc = "raised"
    /\ error = "TypeError"
    /\ Len(bank_transactions) = 1
    /\ bank_transactions = book_transactions
    /\ ValidConfig(self.enhanced)

Suggest == call = "suggest_matches"

\* the outcome of the loop body for the candidate at position k of the pool
SuggestionAt(k) == Suggestion(self.enhanced, bank_transactions[1], book_transactions[k])

\* the returned list is the top five of the qualifying candidates
TopFive ==
    /\ Len(result) <= 5
    /\ \A n \in DOMAIN result : result[n].confidence >= 50
    /\ \A n \in DOMAIN result : \A m \in DOMAIN result :
          n < m => /\ result[n].confidence >= result[m].confidence
                   /\ result[n].transaction # result[m].transaction
    /\ \A n \in DOMAIN result :
          /\ result[n].transaction \in DOMAIN book_transactions
          /\ SuggestionAt(result[n].transaction).qualifies
          /\ SuggestionAt(result[n].transaction).confidence = result[n].confidence
    /\ \A k \in DOMAIN book_transactions :
          (SuggestionAt(k).qualifies /\ \A n \in DOMAIN result : result[n].transaction # k)
             => /\ Len(result) = 5
                /\ \A n \in DOMAIN result : result[n].confidence >= SuggestionAt(k).confidence

\* when suggest_matches returns, it returns the top five
SuggestReturnsTopFive == (Suggest /\ Returned) => TopFive

\* C17: suggest_matches returns exactly the top 5 candidates of the pool
\* whose composite score is at least 0.5: at most 5 entries, each with
\* confidence >= 0.5, in non-increasing order, none left out that has a
\* higher confidence than one returned.
C17_TopK == (Suggest /\ Finished) => (Returned /\ TopFive)

\* suggest_matches raised on a pool that holds the transaction itself
C17_RaisedOnEqualCandidate ==
    /\ Suggest
    /\ pc = "raised"
    /\ error = "TypeError"
    /\ book_transactions = bank_transactions

\* six candidates qualify and the one with the highest confidence is last
SuggestCut ==
    /\ Suggest
    /\ Returned
    /\ Len(matches) = 6
    /\ Len(result) = 5
    /\ result[1].transaction = 6
    /\ result[1].confidence > result[2].confidence

\* C18: suggest_matches is stateless: it takes nothing from the pool and
\* changes no state of the matcher, a call repeated with the same
\* transaction and pool returns the same list, and a batch run made after
\* it ends as the same run made before it.
C18_Stateless ==
    /\ Suggest => self = [smart |-> SmartInit, enhanced |-> EnhancedInit]
    /\ (Suggest /\ Returned) =>
          \A n \in DOMAIN result :
              /\ result[n].transaction \in DOMAIN book_transactions
              /\ SuggestionAt(result[n].transaction).kind = "scored"
    /\ (Suggest /\ Finished /\ prev_result.call = "suggest_matches") =>
          prev_result = [call |-> call, pc |-> pc, error |-> error, value |-> result]
    /\ (Enhanced /\ Finished /\ prev_result.call = "reconcile_transactions") =>
          prev_result = [call |-> call, pc |-> pc, error |-> error, value |-> result]

\* no step of suggest_matches writes the engine, the transaction or the pool
C18_Frame ==
    [][(call = "suggest_matches" /\ call' = "suggest_matches")
          => /\ self' = self
             /\ bank_transactions' = bank_transactions
             /\ book_transactions' = book_transactions]_vars

\* a second call has returned two suggestions, as the first did
C18_Witness ==
    /\ Suggest
    /\ Returned
    /\ runs = 2
    /\ prev_result.call = "suggest_matches"
    /\ Len(result) = 2
    /\ result[1].confidence > result[2].confidence

\* a batch run has returned after a call that returned suggestions
C18_WitnessBatchAfter ==
    /\ Enhanced
    /\ Returned
    /\ prev_result.call = "reconcile_transactions"
    /\ prev_result.pc = "returned"
    /\ Len(audit_log) = 3
    /\ audit_log[2].action = "suggest_transaction_matches"
    /\ audit_log[2].details.suggestions = 2

\* a fraction lies in [0, 1]
InUnit(x) ==
    IF x[2] > 0 THEN 0 <= x[1] /\ x[1] <= x[2]
    ELSE x[2] <= x[1] /\ x[1] <= 0

\* amount_score of suggest_matches for the candidate at position k
AmountScoreAt(k) ==
    AmountScore(DecimalOfStr(bank_transactions[1].amount),
                DecimalOfStr(book_transactions[k].amount))

\* the three credits of _calculate_match_score and their sum lie in [0, 1]
SmartScoresInUnit ==
    Smart =>
        \A b \in DOMAIN bank_transactions : \A k \in DOMAIN book_transactions :
            LET bank_tx == bank_transactions[b]
                book_tx == book_transactions[k]
            IN  /\ AmountCredit(bank_tx, book_tx, amount_tolerance) \in 0..1000
                /\ DateCredit(bank_tx, book_tx) \in 0..1000
                /\ DescriptionCredit(bank_tx, book_tx) \in 0..1000
                /\ calculate_match_score(bank_tx, book_tx, amount_tolerance) \in 0..1000

\* C19: for every pair of records, of any sign, each of the three
\* sub-scores and the composite score the scorer computes lie in [0, 1].
C19_ScoresInUnit ==
    /\ SmartScoresInUnit
    /\ (Suggest /\ bank_transactions[1].date # NoDate) =>
          \A k \in DOMAIN book_transactions :
              book_transactions[k].date # NoDate =>
                  /\ AmountScoreAt(k).type \in {"int", "Decimal"}
                  /\ InUnit(AmountScoreAt(k).value)
                  /\ InUnit(<<DateScore(bank_transactions[1].date, book_transactions[k].date), 30>>)
                  /\ InUnit(fuzzy_match_description(bank_transactions[1].description,
                                                     book_transactions[k].description))
                  /\ SuggestionAt(k).kind = "scored" => InUnit(SuggestionAt(k).overall_score)

\* suggest_matches computed the amount_score 2 for two negative amounts
C19_AmountScoreTwo ==
    /\ Suggest
    /\ pc = "raised"
    /\ error = "TypeError"
    /\ Len(book_transactions) = 1
    /\ AmountScoreAt(1).type = "Decimal"
    /\ AmountScoreAt(1).value = <<-10000, -5000>>

\* the book positions consumed by the bank records before b
ConsumedBefore(b) ==
    { matches[n].book_transaction :
        n \in { m \in DOMAIN matches : /\ matches[m].status = "matched"
                                        /\ matches[m].bank_transaction < b } }

\* the book positions scored for bank record b are the live ones whose
\* bucket is at most span away from the bucket of the bank amount
ScansSpan(b, span) ==
    { c.book : c \in ConsideredFor(b) }
      = { k \in DOMAIN book_transactions :
            /\ k \notin ConsumedBefore(b)
            /\ Abs(Bucket(AbsFloat(book_transactions[k].amount))
                     - Bucket(AbsFloat(bank_transactions[b].amount))) <= span }

\* C20 as stated: the lookup for a bank amount a scans exactly the buckets
\* bucket(a) - span .. bucket(a) + span with span = max(1, ceil(a * T * 100)).
C20_Original ==
    Smart =>
        \A b \in DOMAIN considered :
            ScansSpan(b, Max(1, (Abs(bank_transactions[b].amount) * amount_tolerance + 99) \div 100))

\* C20, amended: the lookup scans exactly the buckets bucket(|a|) - span ..
\* bucket(|a|) + span with span = max(1, floor(|a| * T * 100) + 1), one
\* more than the ceiling when |a| * T * 100 is a whole number.
C20_ScanWindow ==
    Smart =>
        \A b \in DOMAIN considered :
            ScansSpan(b, Max(1, (Abs(bank_transactions[b].amount) * amount_tolerance) \div 100 + 1))

\* a book record 101 buckets above the bank amount 100.00 was scored
C20_Witness ==
    /\ Smart
    /\ \E b \in DOMAIN considered : \E c \in ConsideredFor(b) :
          /\ bank_transactions[b].amount = 10000
          /\ book_transactions[c.book].amount = 10101
    /\ \E b \in DOMAIN considered : b >= 2 /\ ConsumedBefore(b) # {}

\* the pairwise scan the index stands in for: for the bank records up to n,
\* in input order, every unconsumed book record is scored in insertion
\* order and the first strictly best one at or above the threshold is
\* committed
RECURSIVE NaiveLoop(_, _, _, _)
NaiveLoop(bank, book, n, threshold) ==
    IF n = 0 THEN [matches |-> <<>>, consumed |-> {}, unmatched_bank |-> <<>>]
    ELSE LET before == NaiveLoop(bank, book, n - 1, threshold)
             order == SelectSeq([k \in 1..Len(book) |-> k], LAMBDA k : k \notin before.consumed)
             scored == Scored(order, bank[n], book, amount_tolerance)
             best == BestOf(scored, Len(scored), threshold)
         IN  [matches |-> StepMatches(before.matches, n, best),
              consumed |-> StepConsumed(before.consumed, best),
              unmatched_bank |-> StepUnmatchedBank(before.unmatched_bank, n, best)]

NaiveScan == NaiveLoop(bank_transactions, book_transactions, Len(bank_transactions),
                       self.smart.match_threshold)

\* the bank/book pairs of a list of matched entries
Pairs(ms) == { <<ms[n].bank_transaction, ms[n].book_transaction>> : n \in DOMAIN ms }

\* C21: fuzzy_match_transactions returns the same bank/book pairs, the same
\* unmatched bank records and the same unmatched book records as the
\* pairwise scan over the same lists.
C21_EquivalentToNaive ==
    (Returned /\ Smart) =>
        /\ Pairs(SelectSeq(result, LAMBDA e : e.status = "matched")) = Pairs(NaiveScan.matches)
        /\ { result[n].bank_transaction : n \in EntriesWith("unmatched_bank") }
             = { NaiveScan.unmatched_bank[n] : n \in DOMAIN NaiveScan.unmatched_bank }
        /\ { result[n].book_transaction : n \in EntriesWith("unmatched_book") }
             = DOMAIN book_transactions \ NaiveScan.consumed

\* the index matched the bank record to the second book record, the
\* pairwise scan matches it to the first, which scores the same
C21_DifferentPair ==
    /\ Returned
    /\ Smart
    /\ Len(bank_transactions) = 1
    /\ Pairs(SelectSeq(result, LAMBDA e : e.status = "matched")) = { <<1, 2>> }
    /\ Pairs(NaiveScan.matches) = { <<1, 1>> }

\* a run of fuzzy_match_transactions executed alone: the loop over the bank
\* records up to n, from a fresh consumed set, over the index of the book
\* list
RECURSIVE AloneLoop(_, _, _, _)
AloneLoop(bank, book, n, threshold) ==
    IF n = 0 THEN [matches |-> <<>>, consumed |-> {}, unmatched_bank |-> <<>>]
    ELSE LET before == AloneLoop(bank, book, n - 1, threshold)
             order == ScanOrder(IndexOf(book), before.consumed, bank[n], amount_tolerance)
             scored == Scored(order, bank[n], book, amount_tolerance)
             best == BestOf(scored, Len(scored), threshold)
         IN  [matches |-> StepMatches(before.matches, n, best),
              consumed |-> StepConsumed(before.consumed, best),
              unmatched_bank |-> StepUnmatchedBank(before.unmatched_bank, n, best)]

\* the list that run returns
RunAlone(bank, book) ==
    LET end == AloneLoop(bank, book, Len(bank), match_threshold)
        live == SelectSeq([k \in 1..Len(book) |-> k], LAMBDA k : k \notin end.consumed)
    IN  end.matches
          \o [n \in 1..Len(end.unmatched_bank) |-> UnmatchedBankEntry(end.unmatched_bank[n])]
          \o [n \in 1..Len(live) |-> UnmatchedBookEntry(live[n])]

\* the locals of a call of fuzzy_match_transactions are its own: the index
\* is the index of its book list, the consumed set holds the book records
\* of its matches, and what it returned is what the run returns alone
OwnState(frame) ==
    frame.call = "fuzzy_match_transactions" =>
        /\ frame.pc # "idle" => frame.book_amount_index = IndexOf(frame.book_transactions)
        /\ frame.pc = "loop" =>
              frame.matched_book_indices
                = { frame.matches[n].book_transaction : n \in DOMAIN frame.matches }
        /\ frame.pc = "returned" =>
              frame.result = RunAlone(frame.bank_transactions, frame.book_transactions)

\* C22: two runs that interleave on one engine share no matching state:
\* each has its own index and consumed set and returns what it returns
\* when executed alone.
C22_NoSharedState ==
    /\ OwnState(Frame)
    /\ OwnState(suspended)
    /\ self.smart = SmartInit

\* both runs were interrupted after their first bank record, each with a
\* match, over different book lists; then one returned
C22_Witness ==
    /\ Smart
    /\ Returned
    /\ Len(bank_transactions) = 2
    /\ Cardinality(matched_book_indices) = 2
    /\ suspended.call = "fuzzy_match_transactions"
    /\ suspended.pc = "loop"
    /\ suspended.idx = 1
    /\ Len(suspended.bank_transactions) = 2
    /\ suspended.matched_book_indices = {2}
    /\ suspended.book_transactions # book_transactions

\* the book records of the matches committed so far
Committed ==
    { matches[n].book_transaction :
        n \in { m \in DOMAIN matches : Smart => matches[m].status = "matched" } }

\* C23: commits are final within a run: a step of the run leaves every
\* match committed before it as it was, never takes a book record out of
\* the consumed set, and never scores or selects a book record that an
\* earlier bank record consumed.
C23_CommitsFinal ==
    [][(pc = "loop" /\ call \in {"fuzzy_match_transactions", "reconcile_transactions"}) =>
          /\ Len(matches') >= Len(matches)
          /\ \A n \in DOMAIN matches : matches'[n] = matches[n]
          /\ Smart =>
                /\ matched_book_indices \subseteq matched_book_indices'
                /\ matched_book_indices = Committed
                /\ \A b \in DOMAIN considered' :
                      b > Len(considered) =>
                          \A i \in DOMAIN considered'[b] :
                              considered'[b][i].book \notin matched_book_indices
                /\ \A n \in DOMAIN matches' :
                      (n > Len(matches) /\ matches'[n].status = "matched")
                          => matches'[n].book_transaction \notin matched_book_indices
          /\ Enhanced =>
                /\ \A n \in DOMAIN unmatched_book' :
                      \E m \in DOMAIN unmatched_book : unmatched_book[m] = unmatched_book'[n]
                /\ \A n \in DOMAIN unmatched_book' : unmatched_book'[n] \notin Committed]_vars

\* the second bank record equals the first; the book record the first
\* consumed was not scored for the second, which took the other one
C23_Witness ==
    /\ Smart
    /\ Returned
    /\ Len(bank_transactions) = 2
    /\ bank_transactions[1] = bank_transactions[2]
    /\ book_transactions = bank_transactions
    /\ MatchedTo(1, 1)
    /\ MatchedTo(2, 2)
    /\ { c.book : c \in ConsideredFor(2) } = {2}

\* book record k is unconsumed when bank record b is processed and lies in
\* the buckets the lookup for b visits
LiveInWindow(b, k) ==
    /\ k \notin ConsumedBefore(b)
    /\ Abs(Bucket(AbsFloat(book_transactions[k].amount))
             - Bucket(AbsFloat(bank_transactions[b].amount)))
         <= tolerance_buckets(AbsFloat(bank_transactions[b].amount), amount_tolerance)

\* C24: when a match is committed for a bank record, no book record that is
\* unconsumed and inside the lookup window at that moment has a strictly
\* higher composite score than the book record matched.
C24_BestCandidate ==
    /\ Smart =>
          \A n \in EntriesWith("matched") :
              /\ LiveInWindow(matches[n].bank_transaction, matches[n].book_transaction)
              /\ matches[n].match_score
                   = calculate_match_score(bank_transactions[matches[n].bank_transaction],
                                           book_transactions[matches[n].book_transaction],
                                           amount_tolerance)
              /\ \A k \in DOMAIN book_transactions :
                    LiveInWindow(matches[n].bank_transaction, k)
                      => calculate_match_score(bank_transactions[matches[n].bank_transaction],
                                               book_transactions[k], amount_tolerance)
                           <= matches[n].match_score
    /\ Enhanced =>
          \A n \in DOMAIN matches : \A m \in DOMAIN unmatched_book :
              LET c == Candidate(self.enhanced, bank_transactions[matches[n].bank_transaction],
                                 book_transactions[unmatched_book[m]])
              IN  c.kind = "scored" => c.score \div 10 <= matches[n].match_score

\* a bank record was matched to the better of two candidates that both
\* reach the threshold, the lesser one scanned first
C24_Witness ==
    /\ Smart
    /\ Returned
    /\ \E n \in EntriesWith("matched") :
          \E i, j \in DOMAIN considered[result[n].bank_transaction] :
              LET cs == considered[result[n].bank_transaction]
              IN  /\ i < j
                  /\ cs[j].book = result[n].book_transaction
                  /\ cs[i].score >= self.smart.match_threshold
                  /\ cs[i].score < cs[j].score

\* the place of a status in the returned list
StatusRank(st) ==
    CASE st = "matched" -> 1
      [] st = "unmatched_bank" -> 2
      [] st = "unmatched_book" -> 3

\* the position in its input list of the record an entry reports
EntryPosition(e) ==
    IF e.status = "unmatched_book" THEN e.book_transaction ELSE e.bank_transaction

\* a list of positions is strictly increasing
Increasing(s) == \A m, n \in DOMAIN s : m < n => s[m] < s[n]

\* C25: bank records are processed in input order, one fully before the
\* next, and unmatched_book is decided after the last of them: the returned
\* list holds the matched entries in bank input order, then the
\* unmatched_bank entries in bank input order, then the unmatched_book
\* entries in book insertion order.
C25_OutputOrder ==
    /\ (Smart /\ pc = "loop") =>
          /\ Len(considered) = idx
          /\ EntriesWith("unmatched_bank") \cup EntriesWith("unmatched_book") = {}
          /\ Increasing([n \in DOMAIN matches |-> matches[n].bank_transaction])
          /\ Increasing(unmatched_bank)
          /\ { matches[n].bank_transaction : n \in DOMAIN matches }
               \cup { unmatched_bank[n] : n \in DOMAIN unmatched_bank } = 1..idx
    /\ (Smart /\ Returned) =>
          /\ idx = Len(bank_transactions)
          /\ \A m, n \in DOMAIN result :
                m < n =>
                    /\ StatusRank(result[m].status) <= StatusRank(result[n].status)
                    /\ result[m].status = result[n].status
                         => EntryPosition(result[m]) < EntryPosition(result[n])

\* the first bank record is unmatched and the second matched: the matched
\* entry comes first, then the unmatched bank record, then the book record
\* left over
C25_Witness ==
    /\ Smart
    /\ Returned
    /\ Len(result) = 3
    /\ result[1].status = "matched"
    /\ result[1].bank_transaction = 2
    /\ result[2].status = "unmatched_bank"
    /\ result[2].bank_transaction = 1
    /\ result[3].status = "unmatched_book"

\* two bank records are unmatched and two book records left over
C25_WitnessUnmatched ==
    /\ Smart
    /\ Returned
    /\ Len(result) = 4
    /\ result[1].status = "unmatched_bank"
    /\ result[3].status = "unmatched_book"

\* the amounts of two records have opposite signs
OppositeSigns(bank_tx, book_tx) ==
    \/ bank_tx.amount < 0 /\ book_tx.amount > 0
    \/ bank_tx.amount > 0 /\ book_tx.amount < 0

\* C26: a bank record and a book record whose amounts have opposite signs
\* are never matched to each other by fuzzy_match_transactions.
C26_OppositeSignsUnmatched ==
    Smart =>
        \A n \in EntriesWith("matched") :
            ~OppositeSigns(bank_transactions[matches[n].bank_transaction],
                           book_transactions[matches[n].book_transaction])

\* the bank record -100.00 was matched to the book record +100.00
C26_MatchedAcrossSigns ==
    /\ Smart
    /\ Returned
    /\ Len(bank_transactions) = 1
    /\ Len(book_transactions) = 1
    /\ bank_transactions[1].amount = -10000
    /\ book_transactions[1].amount = 10000
    /\ Len(result) = 1
    /\ result[1].status = "matched"
    /\ result[1].match_score = 999

\* when bank record b was processed, an unconsumed book record had exactly
\* its amount, date and description
IdenticalLive(b) ==
    \E k \in DOMAIN book_transactions :
        /\ k \notin ConsumedBefore(b)
        /\ book_transactions[k] = bank_transactions[b]

\* C27: a bank record for which an unconsumed book record with exactly the
\* same amount, date and description exists when it is processed is
\* matched, for every amount including 0 and for records without a date.
C27_IdenticalMatched ==
    Smart =>
        \A b \in DOMAIN considered :
            IdenticalLive(b) => \E k \in DOMAIN book_transactions : MatchedTo(b, k)

\* a bank record of amount 0 is reported unmatched beside its exact copy
C27_ZeroUnmatched ==
    /\ Smart
    /\ Returned
    /\ Len(bank_transactions) = 1
    /\ bank_transactions[1].amount = 0
    /\ book_transactions = bank_transactions
    /\ result = <<UnmatchedBankEntry(1), UnmatchedBookEntry(1)>>

\* a bank record without a date is reported unmatched beside its exact copy
C27_NoDateUnmatched ==
    /\ Smart
    /\ Returned
    /\ Len(bank_transactions) = 1
    /\ bank_transactions[1].date = NoDate
    /\ book_transactions = bank_transactions
    /\ result = <<UnmatchedBankEntry(1), UnmatchedBookEntry(1)>>

\* identical records with a positive or negative amount and a date are
\* matched
C27_DatedNonZeroMatched ==
    Smart =>
        \A b \in DOMAIN considered :
            (/\ IdenticalLive(b)
             /\ bank_transactions[b].amount # 0
             /\ bank_transactions[b].date # NoDate)
            => \E k \in DOMAIN book_transactions : MatchedTo(b, k)

\* the date contribution for a bank and a book record: the date credit of
\* _calculate_match_score, the day difference reconcile_transactions filters
\* and scores on
DateContribution(bank_tx, book_tx) ==
    IF Smart THEN DateCredit(bank_tx, book_tx)
    ELSE Abs(TimedeltaDays(bank_tx.date, book_tx.date))

\* C28: the date contribution is symmetric: scoring bank = t1 against
\* book = t2 gives what bank = t2 against book = t1 gives, and two
\* timestamps less than 24 hours apart get the zero-day credit in either
\* order.
C28_DateSymmetric ==
    (Smart \/ Enhanced) =>
        \A b \in DOMAIN bank_transactions : \A k \in DOMAIN book_transactions :
            LET t1 == bank_transactions[b]
                t2 == book_transactions[k]
            IN  /\ DateContribution(t1, t2) = DateContribution(t2, t1)
                /\ Abs(t1.date - t2.date) < HalfDaysPerDay
                     => DateContribution(t1, t2) = DateContribution(t1, t1)

\* bank at midnight, book at noon of the same day: the pair got the
\* one-day credit and stayed unmatched with 0.8
C28_EarlierBankUnmatched ==
    /\ Smart
    /\ Returned
    /\ Len(bank_transactions) = 1
    /\ Len(book_transactions) = 1
    /\ bank_transactions[1].date = 0
    /\ book_transactions[1].date = 1
    /\ considered[1][1].score = 800
    /\ result[1].status = "unmatched_bank"

\* the same two records the other way round: zero-day credit, matched
C28_LaterBankMatched ==
    /\ Smart
    /\ Returned
    /\ Len(bank_transactions) = 1
    /\ Len(book_transactions) = 1
    /\ bank_transactions[1].date = 1
    /\ book_transactions[1].date = 0
    /\ result[1].status = "matched"
    /\ result[1].match_score = 899

\* the engine is one the constructor builds when it is passed the amount
\* tolerance t
ConstructedWith(t) ==
    \E days \in DaysArgs : self.enhanced = EnhancedNew(Arg(t), days, <<8, 10>>)

\* the tolerances, none negative, that callers pass to the constructor
GivenTolerances == { a.value : a \in { x \in ToleranceArgs : x.given /\ x.value.coef >= 0 } }

\* reconcile_transactions on this engine takes the book record as a
\* candidate for the bank record: the pair passes the filters
IsCandidate(bank_txn, book_txn) ==
    /\ ParseError(bank_txn) = "none"
    /\ Candidate(self.enhanced, bank_txn, book_txn).kind # "skip"
    /\ Candidate(self.enhanced, bank_txn, book_txn)
         \notin { [kind |-> "raise", error |-> "ValueError"],
                  [kind |-> "raise", error |-> "InvalidOperation"] }

\* C29: a run of reconcile_transactions on an engine constructed with the
\* amount tolerance t >= 0, t = 0 included, applies t: it takes a book
\* record as a candidate only if |bank amount - book amount| <= t.
C29_ConfiguredTolerance ==
    \A t \in GivenTolerances :
        (ConstructedWith(t) /\ Enhanced) =>
            /\ self.enhanced.amount_tolerance = t
            /\ \A b \in DOMAIN bank_transactions : \A k \in DOMAIN book_transactions :
                  IsCandidate(bank_transactions[b], book_transactions[k])
                    => Abs(bank_transactions[b].amount - book_transactions[k].amount)
                         <= CentsOf(t)

\* on an engine constructed with tolerance 0, the book record 100.01 was
\* taken as a candidate for the bank record 100.00
C29_ZeroToleranceCandidate ==
    /\ Enhanced
    /\ ConstructedWith(Dec(0, 0))
    /\ Len(audit_log) = 0
    /\ pc = "raised"
    /\ error = "TypeError"
    /\ Len(bank_transactions) = 1
    /\ Len(book_transactions) = 1
    /\ bank_transactions[1].amount = 10000
    /\ book_transactions[1].amount = 10001

\* with a tolerance other than zero the filter is the configured one
C29_NonZeroTolerance ==
    \A t \in GivenTolerances \ {Dec(0, 0)} :
        (ConstructedWith(t) /\ Enhanced) =>
            /\ self.enhanced.amount_tolerance = t
            /\ \A b \in DOMAIN bank_transactions : \A k \in DOMAIN book_transactions :
                  IsCandidate(bank_transactions[b], book_transactions[k])
                    => Abs(bank_transactions[b].amount - book_transactions[k].amount)
                         <= CentsOf(t)

\* an engine with tolerance 0.50 took 100.50 as a candidate for 100.00
C29_HalfToleranceCandidate ==
    /\ Enhanced
    /\ ConstructedWith(Dec(5, -1))
    /\ pc = "raised"
    /\ error = "TypeError"
    /\ Len(bank_transactions) = 1
    /\ Len(book_transactions) = 1
    /\ bank_transactions[1].amount = 10000
    /\ book_transactions[1].amount = 10050

\* the amounts and dates of the transaction and of every record of the pool
\* parse
SuggestInputsParse ==
    /\ \A b \in DOMAIN bank_transactions : ParseError(bank_transactions[b]) = "none"
    /\ \A k \in DOMAIN book_transactions : ParseError(book_transactions[k]) = "none"

\* C30: suggest_matches returns a list without raising for every
\* transaction and pool whose amounts and dates parse, pairs of zero
\* amounts, of negative amounts and of equal amounts included.
C30_SuggestNeverRaises ==
    (Suggest /\ SuggestInputsParse) => (pc # "raised" /\ error = "none")

\* both amounts are zero: the division 0 / 0 raised
C30_RaisedOnZeroAmounts ==
    /\ Suggest
    /\ pc = "raised"
    /\ error = "InvalidOperation"
    /\ Len(book_transactions) = 1
    /\ bank_transactions[1].amount = 0
    /\ book_transactions[1].amount = 0

\* two negative amounts: Decimal * float raised
C30_RaisedOnNegativeAmounts ==
    /\ Suggest
    /\ SuggestInputsParse
    /\ pc = "raised"
    /\ error = "TypeError"
    /\ Len(book_transactions) = 1
    /\ bank_transactions[1].amount < 0
    /\ book_transactions[1].amount < 0

\* equal positive amounts: Decimal * float raised
C30_RaisedOnEqualAmounts ==
    /\ Suggest
    /\ SuggestInputsParse
    /\ pc = "raised"
    /\ error = "TypeError"
    /\ Len(book_transactions) = 1
    /\ bank_transactions[1].amount = 10000
    /\ book_transactions[1].amount = 10000

\* amounts of opposite signs: the call returned
C30_ReturnedOnOppositeSigns ==
    /\ Suggest
    /\ Returned
    /\ Len(book_transactions) = 1
    /\ bank_transactions[1].amount = 10000
    /\ book_transactions[1].amount = -10000

====
